---- MODULE Spec2Model ----
(***************************************************************************)
(* Textbook Progress Tracker.                                              *)
(*                                                                         *)
(* Two programs share this repository:                                     *)
(*   progress_tracker.py      the multi-textbook tracker ("base")          *)
(*   progress_tracker_QFT.py  the single-textbook tracker ("qft")          *)
(* The variable `program` says which of the two is running.  Text typed    *)
(* by the user and text stored in files is a sequence of one-character     *)
(* strings, so that int(), str.isdigit(), date.fromisoformat() and         *)
(* date.isoformat() are computed character by character.                   *)
(***************************************************************************)
EXTENDS Integers, Sequences, FiniteSets, TLC

(***************************************************************************)
(* Bounds of the model.                                                    *)
(***************************************************************************)
\* longest list of textbooks the Add dialog may build
MaxBooks == 2
\* most timer callbacks (root.after) that may be pending at once
MaxPending == 3
\* most lines typed into the problems box of the Add dialog
MaxLines == 3

\* None, where an object reference (a positive object id) is expected
None == 0

(***************************************************************************)
(* Python text primitives.                                                 *)
(***************************************************************************)
Digits == {"0", "1", "2", "3", "4", "5", "6", "7", "8", "9"}

\* a character for which str.isdigit() is True and int() raises ValueError
\* (U+00B2 SUPERSCRIPT TWO)
SuperscriptTwo == "sup2"

DigitVal(c) ==
    CASE c = "0" -> 0 [] c = "1" -> 1 [] c = "2" -> 2 [] c = "3" -> 3
      [] c = "4" -> 4 [] c = "5" -> 5 [] c = "6" -> 6 [] c = "7" -> 7
      [] c = "8" -> 8 [] c = "9" -> 9

DigitChar(n) ==
    CASE n = 0 -> "0" [] n = 1 -> "1" [] n = 2 -> "2" [] n = 3 -> "3"
      [] n = 4 -> "4" [] n = 5 -> "5" [] n = 6 -> "6" [] n = 7 -> "7"
      [] n = 8 -> "8" [] n = 9 -> "9"

Whitespace == {" ", "\t", "\n"}

RECURSIVE LStrip(_)
LStrip(s) ==
    IF s # <<>> /\ Head(s) \in Whitespace THEN LStrip(Tail(s)) ELSE s

RECURSIVE RStrip(_)
RStrip(s) ==
    IF s # <<>> /\ s[Len(s)] \in Whitespace
    THEN RStrip(SubSeq(s, 1, Len(s) - 1))
    ELSE s

\* str.strip()
Strip(s) == RStrip(LStrip(s))

\* str.isdigit(): non-empty and every character is a digit character
IsDigit(s) ==
    /\ s # <<>>
    /\ \A i \in 1..Len(s) : s[i] \in Digits \cup {SuperscriptTwo}

RECURSIVE DecimalValue(_)
DecimalValue(s) ==
    IF s = <<>> THEN 0
    ELSE 10 * DecimalValue(SubSeq(s, 1, Len(s) - 1)) + DigitVal(s[Len(s)])

ValueError == [ok |-> FALSE, val |-> 0]

\* int(text): surrounding whitespace is dropped, one sign is allowed, the
\* rest must be decimal digits; anything else raises ValueError
IntOf(text) ==
    LET s == Strip(text)
        signed == s # <<>> /\ Head(s) \in {"+", "-"}
        body == IF signed THEN Tail(s) ELSE s
    IN  IF body # <<>> /\ \A i \in 1..Len(body) : body[i] \in Digits
        THEN [ok |-> TRUE,
              val |-> IF signed /\ Head(s) = "-"
                      THEN 0 - DecimalValue(body) ELSE DecimalValue(body)]
        ELSE ValueError

RECURSIVE StrOfNat(_)
StrOfNat(n) ==
    IF n < 10 THEN <<DigitChar(n)>>
    ELSE StrOfNat(n \div 10) \o <<DigitChar(n % 10)>>

\* str(n)
StrOf(n) == IF n < 0 THEN <<"-">> \o StrOfNat(0 - n) ELSE StrOfNat(n)

(***************************************************************************)
(* datetime.date                                                           *)
(***************************************************************************)
IsLeap(y) == y % 4 = 0 /\ (y % 100 # 0 \/ y % 400 = 0)

DaysInMonth(y, m) ==
    CASE m \in {1, 3, 5, 7, 8, 10, 12} -> 31
      [] m \in {4, 6, 9, 11} -> 30
      [] m = 2 -> IF IsLeap(y) THEN 29 ELSE 28

RECURSIVE DaysBeforeMonth(_, _)
DaysBeforeMonth(y, m) ==
    IF m = 1 THEN 0 ELSE DaysBeforeMonth(y, m - 1) + DaysInMonth(y, m - 1)

\* date.toordinal()
ToOrdinal(d) ==
    LET y == d.year - 1
    IN  y * 365 + (y \div 4) - (y \div 100) + (y \div 400)
          + DaysBeforeMonth(d.year, d.month) + d.day

\* (a - b).days
DaysBetween(a, b) == ToOrdinal(a) - ToOrdinal(b)

\* a <= b and a < b on dates
DateLE(a, b) == ToOrdinal(a) <= ToOrdinal(b)
DateLT(a, b) == ToOrdinal(a) < ToOrdinal(b)

\* zero-padded decimal of width w
RECURSIVE Pad(_, _)
Pad(s, w) == IF Len(s) >= w THEN s ELSE Pad(<<"0">> \o s, w)

\* date.isoformat(): "YYYY-MM-DD"
IsoFormat(d) ==
    Pad(StrOfNat(d.year), 4) \o <<"-">> \o Pad(StrOfNat(d.month), 2)
      \o <<"-">> \o Pad(StrOfNat(d.day), 2)

BadDate == [ok |-> FALSE, date |-> [year |-> 0, month |-> 0, day |-> 0]]

\* date.fromisoformat(text): exactly YYYY-MM-DD naming a calendar day,
\* anything else raises ValueError
FromIsoFormat(text) ==
    IF /\ Len(text) = 10
       /\ text[5] = "-" /\ text[8] = "-"
       /\ \A i \in {1, 2, 3, 4, 6, 7, 9, 10} : text[i] \in Digits
    THEN LET y == DecimalValue(SubSeq(text, 1, 4))
             m == DecimalValue(SubSeq(text, 6, 7))
             d == DecimalValue(SubSeq(text, 9, 10))
         IN  IF y >= 1 /\ m \in 1..12 /\ d >= 1 /\ d <= DaysInMonth(y, m)
             THEN [ok |-> TRUE, date |-> [year |-> y, month |-> m, day |-> d]]
             ELSE BadDate
    ELSE BadDate

(***************************************************************************)
(* Dictionaries: a dict is a function from its keys.                       *)
(***************************************************************************)
EmptyDict == [k \in {} |-> <<>>]

DictSet(d, k, v) == [x \in DOMAIN d \cup {k} |-> IF x = k THEN v ELSE d[x]]

\* a removal that removes nothing
DictKeep(d, k) == d

\* dict.pop(k, None) / del d[k]
DictDel(d, k) == [x \in DOMAIN d \ {k} |-> d[x]]

(***************************************************************************)
(* parse_problems (progress_tracker.py)                                    *)
(***************************************************************************)
UpperCase == <<"A", "B", "C", "D", "E", "F", "G", "H", "I", "J", "K", "L", "M",
               "N", "O", "P", "Q", "R", "S", "T", "U", "V", "W", "X", "Y", "Z">>
LowerCase == <<"a", "b", "c", "d", "e", "f", "g", "h", "i", "j", "k", "l", "m",
               "n", "o", "p", "q", "r", "s", "t", "u", "v", "w", "x", "y", "z">>

LowerChar(c) ==
    IF \E i \in 1..26 : UpperCase[i] = c
    THEN LowerCase[CHOOSE i \in 1..26 : UpperCase[i] = c]
    ELSE c

\* str.lower()
Lower(s) == [i \in 1..Len(s) |-> LowerChar(s[i])]

\* str.startswith(prefix)
StartsWith(s, prefix) ==
    Len(s) >= Len(prefix) /\ SubSeq(s, 1, Len(prefix)) = prefix

\* str.split(sep) for a one-character separator: the pieces between the
\* separators, empty pieces included
RECURSIVE SplitOn(_, _)
SplitOn(s, sep) ==
    IF \E i \in 1..Len(s) : s[i] = sep
    THEN LET i == CHOOSE j \in 1..Len(s) :
                     s[j] = sep /\ \A k \in 1..(j - 1) : s[k] # sep
         IN  <<SubSeq(s, 1, i - 1)>> \o SplitOn(SubSeq(s, i + 1, Len(s)), sep)
    ELSE <<s>>

\* str.split(): the maximal runs of non-whitespace characters
RECURSIVE SplitWords(_)
SplitWords(s) ==
    LET t == LStrip(s)
    IN  IF t = <<>> THEN <<>>
        ELSE IF \E i \in 1..Len(t) : t[i] \in Whitespace
        THEN LET i == CHOOSE j \in 1..Len(t) :
                         t[j] \in Whitespace
                         /\ \A k \in 1..(j - 1) : t[k] \notin Whitespace
             IN  <<SubSeq(t, 1, i - 1)>> \o SplitWords(SubSeq(t, i, Len(t)))
        ELSE <<t>>

ChapterPrefix == <<"c", "h", "a", "p", "t", "e", "r", " ">>

\* one iteration of the loop of parse_problems; st = [problems, current_chapter],
\* where the empty current_chapter stands for None (both are falsy, and a
\* word of str.split() is never empty)
ParseLine(st, rawline) ==
    LET line == Strip(rawline)
    IN  IF StartsWith(Lower(line), ChapterPrefix)
        THEN LET chap == SplitWords(line)[2]
             IN  [problems |-> DictSet(st.problems, chap, <<>>),
                  current_chapter |-> chap]
        ELSE IF st.current_chapter # <<>> /\ line # <<>>
        THEN LET pieces == SplitOn(line, ",")
                 stripped == [i \in 1..Len(pieces) |-> Strip(pieces[i])]
             IN  [st EXCEPT !.problems[st.current_chapter] = @ \o stripped]
        ELSE st

RECURSIVE ParseLines(_, _)
ParseLines(st, lines) ==
    IF lines = <<>> THEN st
    ELSE ParseLines(ParseLine(st, Head(lines)), Tail(lines))

parse_problems(text) ==
    ParseLines([problems |-> EmptyDict, current_chapter |-> <<>>],
               SplitOn(Strip(text), "\n")).problems

(***************************************************************************)
(* class Textbook (progress_tracker.py)                                    *)
(***************************************************************************)
\* Textbook.__init__: completed_problems always starts empty
NewTextbook(name, author, total_pages, problems_dict, start_date, end_date, current_page) ==
    [name |-> name, author |-> author, total_pages |-> total_pages,
     current_page |-> current_page, problems_dict |-> problems_dict,
     start_date |-> start_date, end_date |-> end_date,
     completed_problems |-> EmptyDict]

to_dict(t) ==
    [name |-> t.name, author |-> t.author, total_pages |-> t.total_pages,
     current_page |-> t.current_page, problems_dict |-> t.problems_dict,
     start_date |-> IsoFormat(t.start_date),
     end_date |-> IsoFormat(t.end_date),
     completed_problems |-> t.completed_problems]

\* Textbook.from_dict: the stored completed_problems is not passed on
from_dict(data) ==
    NewTextbook(data.name, data.author, data.total_pages, data.problems_dict,
                FromIsoFormat(data.start_date).date,
                FromIsoFormat(data.end_date).date,
                data.current_page)

(***************************************************************************)
(* Rational numbers, for the quotients the programs compute.               *)
(***************************************************************************)
Abs(n) == IF n < 0 THEN 0 - n ELSE n

RECURSIVE GCD(_, _)
GCD(a, b) == IF b = 0 THEN a ELSE GCD(b, a % b)

\* n / d in lowest terms with a positive denominator (d # 0)
Ratio(n, d) ==
    LET g == GCD(Abs(n), Abs(d))
        sgn == IF d < 0 THEN 0 - 1 ELSE 1
    IN  [num |-> sgn * (n \div g), den |-> sgn * (d \div g)]

Zero == [num |-> 0, den |-> 1]

\* what a division by zero leaves in place of a number
ZeroDivisionError == [num |-> 0, den |-> 0]

\* Python's n / d
TrueDiv(n, d) == IF d = 0 THEN ZeroDivisionError ELSE Ratio(n, d)

(***************************************************************************)
(* State.                                                                  *)
(***************************************************************************)
VARIABLES
    program,            \* "base" or "qft": which of the two programs runs
    today,              \* the calendar day, as date.today() reports it
    display,            \* what the labels and progress bars were last set to
    \* ---- progress_tracker.py
    heap,               \* the Textbook objects: object id -> fields
    textbooks,          \* the list `textbooks`: object ids in order
    current_textbook,   \* the global `current_textbook`: an object id or None
    curselection,       \* textbooks_list.curselection(): an index, 0 if none
    tree,               \* the rows of the Treeview as update_tree left them
    textbooks_file,     \* textbooks.json: [exists, data]
    \* ---- progress_tracker_QFT.py
    completed_problems, \* the global dict of completion entries
    current_page,       \* the global current_page
    completed_file,     \* completed_problems.json: [exists, data]
    config_file,        \* tracker_config.json: [exists, data]
    uploads,            \* the files in the directory uploaded_documents
    pending,            \* number of update_widget calls scheduled by root.after
    \* ---- both
    lastOp              \* the handler that ran last, the problems it acted
                        \* on and the dialog or outcome it ended with

baseVars == <<heap, textbooks, current_textbook, curselection, tree,
              textbooks_file>>
qftVars == <<completed_problems, current_page, completed_file, config_file,
             uploads, pending>>
vars == <<program, today, display, heap, textbooks, current_textbook,
          curselection, tree, textbooks_file, completed_problems,
          current_page, completed_file, config_file, uploads, pending,
          lastOp>>

AbsentFile == [exists |-> FALSE, data |-> <<>>]
FileWith(data) == [exists |-> TRUE, data |-> data]

Done(op, result) == lastOp' = [op |-> op, result |-> result, probs |-> {}]
DoneMark(result, probs) ==
    lastOp' = [op |-> "mark_problem", result |-> result, probs |-> probs]

(***************************************************************************)
(* load_textbooks / save_textbooks.  json.dump followed by json.load gives *)
(* back the same strings, integers, lists and string-keyed dicts, so the   *)
(* file is held as the value that was dumped.                              *)
(***************************************************************************)
load_textbooks(file) ==
    IF file.exists
    THEN [i \in 1..Len(file.data) |-> from_dict(file.data[i])]
    ELSE <<>>

save_textbooks(tbs, hp) ==
    FileWith([i \in 1..Len(tbs) |-> to_dict(hp[tbs[i]])])

(***************************************************************************)
(* The display of progress_tracker.py.                                     *)
(***************************************************************************)
IsNumericKey(k) == IntOf(k).ok

\* sorted(keys, key=lambda x: int(x))
RECURSIVE SortedByInt(_)
SortedByInt(keys) ==
    IF keys = {} THEN <<>>
    ELSE LET k == CHOOSE x \in keys :
                      \A y \in keys : IntOf(x).val <= IntOf(y).val
         IN  <<k>> \o SortedByInt(keys \ {k})

ChapterRows(chap, probs) ==
    <<[isProblem |-> FALSE, chapter |-> chap, prob |-> <<>>]>>
      \o [i \in 1..Len(probs) |->
            [isProblem |-> TRUE, chapter |-> chap, prob |-> probs[i]]]

RECURSIVE RowsOf(_, _)
RowsOf(chaps, problems_dict) ==
    IF chaps = <<>> THEN <<>>
    ELSE ChapterRows(Head(chaps), problems_dict[Head(chaps)])
           \o RowsOf(Tail(chaps), problems_dict)

\* update_tree: the rows are deleted, then rebuilt from the current textbook;
\* int(x) of a non-numeric chapter key raises after the rows were deleted
update_tree(hp, cur) ==
    IF cur = None THEN <<>>
    ELSE IF \A k \in DOMAIN hp[cur].problems_dict : IsNumericKey(k)
    THEN RowsOf(SortedByInt(DOMAIN hp[cur].problems_dict),
                hp[cur].problems_dict)
    ELSE <<>>

\* clear_display
BlankDisplay == [shown |-> FALSE]

\* update_display dividing without looking at the divisor
base_metrics_Unguarded(t, d) ==
    LET start == t.start_date
        end == t.end_date
        total_days == DaysBetween(end, start)
        days_elapsed == IF DateLE(start, d)
                        THEN (IF DaysBetween(d, start) > 0
                              THEN DaysBetween(d, start) ELSE 0)
                        ELSE 0
        days_left == IF DateLE(d, end)
                     THEN (IF DaysBetween(end, d) > 0
                           THEN DaysBetween(end, d) ELSE 0)
                     ELSE 0
    IN  [shown |-> TRUE,
         total_days |-> total_days,
         days_elapsed |-> days_elapsed,
         days_left |-> days_left,
         semester_progress |->
             TrueDiv(days_elapsed * 100, total_days),
         textbook_progress |->
             TrueDiv(t.current_page * 100, t.total_pages),
         pace_shown |-> days_left > 0,
         pace |-> IF days_left > 0
                  THEN TrueDiv(t.total_pages - t.current_page, days_left)
                  ELSE Zero]

\* the date arithmetic and the progress values of update_display for
\* textbook t on day d
base_metrics(t, d) ==
    LET start == t.start_date
        end == t.end_date
        total_days == DaysBetween(end, start)
        days_elapsed == IF DateLE(start, d)
                        THEN (IF DaysBetween(d, start) > 0
                              THEN DaysBetween(d, start) ELSE 0)
                        ELSE 0
        days_left == IF DateLE(d, end)
                     THEN (IF DaysBetween(end, d) > 0
                           THEN DaysBetween(end, d) ELSE 0)
                     ELSE 0
    IN  [shown |-> TRUE,
         total_days |-> total_days,
         days_elapsed |-> days_elapsed,
         days_left |-> days_left,
         semester_progress |->
             IF total_days # 0
             THEN TrueDiv(days_elapsed * 100, total_days) ELSE Zero,
         textbook_progress |->
             IF t.total_pages # 0
             THEN TrueDiv(t.current_page * 100, t.total_pages) ELSE Zero,
         pace_shown |-> days_left > 0,
         pace |-> IF days_left > 0
                  THEN TrueDiv(t.total_pages - t.current_page, days_left)
                  ELSE Zero]

\* update_display: [display, tree]; returns at once without a current textbook
update_display(hp, cur, d, old) ==
    IF cur = None THEN old
    ELSE [display |-> base_metrics(hp[cur], d), tree |-> update_tree(hp, cur)]

\* the selected rows, in tree order
SelectedRows(rows, selected) ==
    LET F[i \in 0..Len(rows)] ==
            IF i = 0 THEN <<>>
            ELSE IF i \in selected THEN Append(F[i - 1], rows[i]) ELSE F[i - 1]
    IN  F[Len(rows)]

\* every selection the user can make in the tree
Selections(rows) == {SelectedRows(rows, sel) : sel \in SUBSET (1..Len(rows))}

\* the smallest object id not in use
FreshOid(hp) == CHOOSE o \in 1..(MaxBooks + 1) :
                    o \notin DOMAIN hp /\ \A q \in 1..(o - 1) : q \in DOMAIN hp

\* objects no longer referenced are reclaimed
Collect(hp, tbs, cur) ==
    [o \in {x \in DOMAIN hp : x = cur \/ \E i \in 1..Len(tbs) : tbs[i] = x}
       |-> hp[o]]

(***************************************************************************)
(* What the user may type (bounded).                                       *)
(***************************************************************************)
Names == {"A", "B"}
Authors == {"x"}
\* "-1", "0", "1" and a text int() rejects
PagesTexts == {<<"-", "1">>, <<"0">>, <<"1">>, <<"x">>}
Date1 == <<"2", "0", "2", "5", "-", "0", "1", "-", "1", "3">>
Date2 == <<"2", "0", "2", "5", "-", "0", "5", "-", "0", "9">>
\* 30 February: not a calendar day
DateBad == <<"2", "0", "2", "5", "-", "0", "2", "-", "3", "0">>
\* a start after Date2
Date3 == <<"2", "0", "2", "5", "-", "0", "6", "-", "0", "1">>
StartTexts == {Date1, Date3, DateBad}
EndTexts == {Date2}
\* "Chapter 1\n 1.1 \n" (the Text widget appends the newline)
ChapterTexts ==
    {<<"C", "h", "a", "p", "t", "e", "r", " ", "1", "\n",
       " ", "1", ".", "1", " ", "\n">>}
\* what may stand in the page entry when Update is pressed
PageEntryTexts == {<<"0">>, <<"1">>, <<"2">>, <<"+", "1">>, <<"-", "1">>,
                   <<"a">>, <<SuperscriptTwo>>}

ErrDates == "Invalid input: End date must be after start date"
ErrIsoformat == "Invalid input: Invalid isoformat string"
ErrInt == "Invalid input: invalid literal for int() with base 10"

(***************************************************************************)
(* progress_tracker.py: the handlers.                                      *)
(***************************************************************************)
\* parse_and_add without the comparison of the two dates
parse_and_add_NoDateCheck(name, author, pages, start, end, problemsText) ==
    LET start_date == FromIsoFormat(start)
        end_date == FromIsoFormat(end)
        total == IntOf(pages)
        o == FreshOid(heap)
        new_textbook == NewTextbook(name, author, total.val,
                                    parse_problems(problemsText),
                                    start_date.date, end_date.date, 0)
        hp == [x \in DOMAIN heap \cup {o} |->
                 IF x = o THEN new_textbook ELSE heap[x]]
    IN  /\ program = "base"
        /\ Len(textbooks) < MaxBooks
        /\ IF ~start_date.ok \/ ~end_date.ok
           THEN /\ Done("parse_and_add", ErrIsoformat)
                /\ UNCHANGED baseVars
           ELSE IF ~total.ok
           THEN /\ Done("parse_and_add", ErrInt)
                /\ UNCHANGED baseVars
           ELSE /\ Done("parse_and_add", "added")
                /\ heap' = hp
                /\ textbooks' = Append(textbooks, o)
                /\ textbooks_file' = save_textbooks(textbooks', hp)
                /\ UNCHANGED <<current_textbook, curselection, tree>>
        /\ UNCHANGED <<program, today, display, qftVars>>

\* parse_and_add: the Add button of the dialog
parse_and_add(name, author, pages, start, end, problemsText) ==
    LET start_date == FromIsoFormat(start)
        end_date == FromIsoFormat(end)
        total == IntOf(pages)
        o == FreshOid(heap)
        new_textbook == NewTextbook(name, author, total.val,
                                    parse_problems(problemsText),
                                    start_date.date, end_date.date, 0)
        hp == [x \in DOMAIN heap \cup {o} |->
                 IF x = o THEN new_textbook ELSE heap[x]]
    IN  /\ program = "base"
        /\ Len(textbooks) < MaxBooks
        /\ IF ~start_date.ok \/ ~end_date.ok
           THEN /\ Done("parse_and_add", ErrIsoformat)
                /\ UNCHANGED baseVars
           ELSE IF DateLT(end_date.date, start_date.date)
           THEN /\ Done("parse_and_add", ErrDates)
                /\ UNCHANGED baseVars
           ELSE IF ~total.ok
           THEN /\ Done("parse_and_add", ErrInt)
                /\ UNCHANGED baseVars
           ELSE /\ Done("parse_and_add", "added")
                /\ heap' = hp
                /\ textbooks' = Append(textbooks, o)
                /\ textbooks_file' = save_textbooks(textbooks', hp)
                /\ UNCHANGED <<current_textbook, curselection, tree>>
        /\ UNCHANGED <<program, today, display, qftVars>>

AddTextbook ==
    \E name \in Names, author \in Authors, pages \in PagesTexts,
       start \in StartTexts, end \in EndTexts, text \in ChapterTexts :
        parse_and_add(name, author, pages, start, end, text)

\* on_select, given the list, the selection and the current textbook:
\* the new current textbook
on_select(tbs, sel, cur) == IF sel # 0 THEN tbs[sel] ELSE cur

\* the user clicks row i of the listbox: <<ListboxSelect>>
Select(i) ==
    LET cur == on_select(textbooks, i, current_textbook)
        shown == update_display(heap, cur, today,
                                [display |-> display, tree |-> tree])
    IN  /\ program = "base"
        /\ Done("on_select", "selected")
        /\ i \in 1..Len(textbooks)
        /\ curselection' = i
        /\ current_textbook' = cur
        /\ display' = shown.display
        /\ tree' = shown.tree
        /\ heap' = Collect(heap, textbooks, cur)
        /\ UNCHANGED <<program, today, textbooks, textbooks_file, qftVars>>

\* the loop of mark_problem over the selected problems
MarkedDict(old, probs, complete) ==
    IF complete
    THEN [p \in DOMAIN old \cup probs |->
            IF p \in probs THEN [complete |-> TRUE] ELSE old[p]]
    ELSE [p \in DOMAIN old \ probs |-> old[p]]

\* mark_problem(complete); rows: the rows tree.selection() names
mark_problem(complete, rows) ==
    LET probs == {rows[i].prob : i \in {j \in 1..Len(rows) : rows[j].isProblem}}
        hp == [heap EXCEPT ![current_textbook].completed_problems =
                   MarkedDict(@, probs, complete)]
    IN  /\ program = "base"
        /\ IF current_textbook = None
           THEN /\ DoneMark("no textbook", {})
                /\ UNCHANGED baseVars
           ELSE /\ DoneMark(IF complete THEN "complete" ELSE "incomplete",
                            probs)
                /\ heap' = hp
                /\ textbooks_file' = save_textbooks(textbooks, hp)
                /\ tree' = update_tree(hp, current_textbook)
                /\ UNCHANGED <<textbooks, current_textbook, curselection>>
        /\ UNCHANGED <<program, today, display, qftVars>>

MarkProblem ==
    \E complete \in BOOLEAN, rows \in Selections(tree) :
        mark_problem(complete, rows)

\* an update_page that writes the page into every textbook
update_page_EveryBook(text) ==
    LET new_page == IntOf(text)
        accepted == /\ current_textbook # None
                    /\ IsDigit(text)
                    /\ new_page.ok
                    /\ 0 <= new_page.val
                    /\ new_page.val <= heap[current_textbook].total_pages
        hp == IF accepted
              THEN [o \in DOMAIN heap |->
                      [heap[o] EXCEPT !.current_page = new_page.val]]
              ELSE heap
        shown == update_display(hp, current_textbook, today,
                                [display |-> display, tree |-> tree])
    IN  /\ program = "base"
        /\ Done("update_page", IF accepted THEN "set" ELSE "ignored")
        /\ heap' = hp
        /\ textbooks_file' = IF accepted THEN save_textbooks(textbooks, hp)
                             ELSE textbooks_file
        /\ display' = shown.display
        /\ tree' = shown.tree
        /\ UNCHANGED <<program, today, textbooks, current_textbook,
                       curselection, qftVars>>

\* the Update button: update_page(), then update_display()
update_page(text) ==
    LET new_page == IntOf(text)
        accepted == /\ current_textbook # None
                    /\ IsDigit(text)
                    /\ new_page.ok
                    /\ 0 <= new_page.val
                    /\ new_page.val <= heap[current_textbook].total_pages
        hp == IF accepted
              THEN [heap EXCEPT ![current_textbook].current_page =
                        new_page.val]
              ELSE heap
        shown == update_display(hp, current_textbook, today,
                                [display |-> display, tree |-> tree])
    IN  /\ program = "base"
        /\ Done("update_page", IF accepted THEN "set" ELSE "ignored")
        /\ heap' = hp
        /\ textbooks_file' = IF accepted THEN save_textbooks(textbooks, hp)
                             ELSE textbooks_file
        /\ display' = shown.display
        /\ tree' = shown.tree
        /\ UNCHANGED <<program, today, textbooks, current_textbook,
                       curselection, qftVars>>

UpdatePage == \E text \in PageEntryTexts : update_page(text)

\* a delete_textbook that leaves current_textbook as it was
delete_textbook_KeepCurrent(confirm) ==
    LET index == curselection
        textbook_name == heap[textbooks[index]].name
        tbs == [i \in 1..(Len(textbooks) - 1) |->
                  IF i < index THEN textbooks[i] ELSE textbooks[i + 1]]
        cleared == current_textbook # None
                   /\ heap[current_textbook].name = textbook_name
        cur1 == IF cleared THEN None ELSE current_textbook
        shown1 == IF cleared
                  THEN [display |-> BlankDisplay, tree |-> <<>>]
                  ELSE [display |-> display, tree |-> tree]
        \* min(index, len(textbooks)-1), counted from 1
        new_index == IF Len(tbs) < index THEN Len(tbs) ELSE index
        sel2 == IF tbs # <<>> THEN new_index ELSE 0
        cur2 == current_textbook
        shown2 == IF sel2 # 0
                  THEN update_display(heap, cur2, today, shown1)
                  ELSE shown1
    IN  /\ program = "base"
        /\ IF curselection = 0
           THEN /\ Done("delete_textbook", "No textbook selected")
                /\ UNCHANGED <<baseVars, display>>
           ELSE IF ~confirm
           THEN /\ Done("delete_textbook", "cancelled")
                /\ UNCHANGED <<baseVars, display>>
           ELSE /\ Done("delete_textbook", "deleted")
                /\ textbooks' = tbs
                /\ textbooks_file' = save_textbooks(tbs, heap)
                /\ curselection' = sel2
                /\ current_textbook' = cur2
                /\ display' = shown2.display
                /\ tree' = shown2.tree
                /\ heap' = Collect(heap, tbs, cur2)
        /\ UNCHANGED <<program, today, qftVars>>

\* delete_textbook; `confirm` is the answer to the confirmation dialog
delete_textbook(confirm) ==
    LET index == curselection
        textbook_name == heap[textbooks[index]].name
        tbs == [i \in 1..(Len(textbooks) - 1) |->
                  IF i < index THEN textbooks[i] ELSE textbooks[i + 1]]
        cleared == current_textbook # None
                   /\ heap[current_textbook].name = textbook_name
        cur1 == IF cleared THEN None ELSE current_textbook
        shown1 == IF cleared
                  THEN [display |-> BlankDisplay, tree |-> <<>>]
                  ELSE [display |-> display, tree |-> tree]
        \* min(index, len(textbooks)-1), counted from 1
        new_index == IF Len(tbs) < index THEN Len(tbs) ELSE index
        sel2 == IF tbs # <<>> THEN new_index ELSE 0
        cur2 == on_select(tbs, sel2, cur1)
        shown2 == IF sel2 # 0
                  THEN update_display(heap, cur2, today, shown1)
                  ELSE shown1
    IN  /\ program = "base"
        /\ IF curselection = 0
           THEN /\ Done("delete_textbook", "No textbook selected")
                /\ UNCHANGED <<baseVars, display>>
           ELSE IF ~confirm
           THEN /\ Done("delete_textbook", "cancelled")
                /\ UNCHANGED <<baseVars, display>>
           ELSE /\ Done("delete_textbook", "deleted")
                /\ textbooks' = tbs
                /\ textbooks_file' = save_textbooks(tbs, heap)
                /\ curselection' = sel2
                /\ current_textbook' = cur2
                /\ display' = shown2.display
                /\ tree' = shown2.tree
                /\ heap' = Collect(heap, tbs, cur2)
        /\ UNCHANGED <<program, today, qftVars>>

DeleteTextbook == \E confirm \in BOOLEAN : delete_textbook(confirm)

\* what the module-level code builds from textbooks.json on day d
BaseStartupWith(loaded, d) ==
    LET tbs == [i \in 1..Len(loaded) |-> i]
        hp == [i \in 1..Len(loaded) |-> loaded[i]]
        sel == IF tbs # <<>> THEN 1 ELSE 0
        cur == on_select(tbs, sel, None)
        shown == IF sel # 0
                 THEN update_display(hp, cur, d,
                                     [display |-> BlankDisplay, tree |-> <<>>])
                 ELSE [display |-> BlankDisplay, tree |-> <<>>]
    IN  [textbooks |-> tbs, heap |-> hp, curselection |-> sel,
         current_textbook |-> cur, display |-> shown.display,
         tree |-> shown.tree]

BaseStartup(file, d) == BaseStartupWith(load_textbooks(file), d)

\* the program is closed and started again
RestartBase ==
    LET st == BaseStartup(textbooks_file, today)
    IN  /\ program = "base"
        /\ Done("startup", "loaded")
        /\ textbooks' = st.textbooks
        /\ heap' = st.heap
        /\ curselection' = st.curselection
        /\ current_textbook' = st.current_textbook
        /\ display' = st.display
        /\ tree' = st.tree
        /\ UNCHANGED <<program, today, textbooks_file, qftVars>>

(***************************************************************************)
(* progress_tracker_QFT.py                                                 *)
(***************************************************************************)
TOTAL_PAGES == 258
INITIAL_PAGE == 0
SEMESTER_START == [year |-> 2025, month |-> 1, day |-> 13]
SEMESTER_END == [year |-> 2025, month |-> 5, day |-> 9]
TOTAL_SEMESTER_DAYS == DaysBetween(SEMESTER_END, SEMESTER_START)
UPLOAD_DIR == <<"u", "p", "l", "o", "a", "d", "e", "d", "_",
                "d", "o", "c", "u", "m", "e", "n", "t", "s">>

\* all_problems_dict, cut down to one problem in each of two chapters
all_problems_dict ==
    [k \in {<<"2">>, <<"3">>} |->
       IF k = <<"2">> THEN <<<<"2", ".", "3">>>> ELSE <<<<"3", ".", "2">>>>]

\* JSON null in the "document" field
NoDocument == <<>>

\* dict.get(key) on a completion entry
EntryGet(entry, key) == IF key \in DOMAIN entry THEN entry[key] ELSE NoDocument

\* the text update_treeview shows for a problem row ("v" for the check mark)
DisplayText(cp, prob) ==
    IF prob \in DOMAIN cp /\ EntryGet(cp[prob], "complete") = TRUE
    THEN prob \o <<" ", " ", "v">>
           \o (IF EntryGet(cp[prob], "document") # NoDocument
               THEN <<" ", "(", "d", "o", "c", ")">> ELSE <<>>)
    ELSE prob

QftChapterRows(cp, chap) ==
    <<[isProblem |-> FALSE,
       text |-> <<"C", "h", "a", "p", "t", "e", "r", " ">> \o chap]>>
      \o [i \in 1..Len(all_problems_dict[chap]) |->
            [isProblem |-> TRUE,
             text |-> DisplayText(cp, all_problems_dict[chap][i])]]

RECURSIVE QftRows(_, _)
QftRows(cp, chaps) ==
    IF chaps = <<>> THEN <<>>
    ELSE QftChapterRows(cp, Head(chaps)) \o QftRows(cp, Tail(chaps))

\* sorted(all_problems_dict, key=lambda x: int(x))
ChapterOrder == SortedByInt(DOMAIN all_problems_dict)

\* update_treeview: the rows in chapter order, each with its text.  Every
\* handler that changes completed_problems calls it, so the rows are always
\* those of the current completed_problems.
update_treeview(cp) == QftRows(cp, ChapterOrder)

\* load_completed_problems
load_completed_problems(file) ==
    IF file.exists THEN file.data ELSE EmptyDict

save_completed_problems(data) == FileWith(data)

default_config == [current_page |-> INITIAL_PAGE]

\* load_config: [config, file]; a missing file is created with the defaults
load_config(file) ==
    IF file.exists
    THEN [config |-> file.data, file |-> file]
    ELSE [config |-> default_config, file |-> FileWith(default_config)]

\* a save_config that writes nothing
save_config_Skipped(config) == config_file

\* save_config (the write succeeds)
save_config(config) == FileWith(config)

\* update_widget calling a difference of exactly one page on track
qft_metrics_TrackWithinOne(pg, d) ==
    LET before == DateLT(d, SEMESTER_START)
        after == DateLT(SEMESTER_END, d)
        days_elapsed == IF before THEN 0
                        ELSE IF after THEN TOTAL_SEMESTER_DAYS
                        ELSE DaysBetween(d, SEMESTER_START)
        days_left == IF before THEN TOTAL_SEMESTER_DAYS
                     ELSE IF after THEN 0
                     ELSE DaysBetween(SEMESTER_END, d)
        page_diff == TrueDiv(pg * TOTAL_SEMESTER_DAYS - days_elapsed * TOTAL_PAGES,
                           TOTAL_SEMESTER_DAYS)
    IN  [shown |-> TRUE,
         total_days |-> TOTAL_SEMESTER_DAYS,
         days_elapsed |-> days_elapsed,
         days_left |-> days_left,
         semester_progress |-> TrueDiv(days_elapsed * 100, TOTAL_SEMESTER_DAYS),
         textbook_progress |-> TrueDiv(pg * 100, TOTAL_PAGES),
         expected_page |-> TrueDiv(days_elapsed * TOTAL_PAGES,
                                 TOTAL_SEMESTER_DAYS),
         page_diff |-> page_diff,
         status |-> IF Abs(page_diff.num) <= page_diff.den THEN "On track!"
                    ELSE IF page_diff.num < 0 THEN "behind schedule"
                    ELSE "ahead of schedule",
         pace_shown |-> days_left > 0,
         pace |-> IF days_left > 0
                  THEN TrueDiv(TOTAL_PAGES - pg, days_left) ELSE Zero]

\* the values update_widget computes for page pg on day d
qft_metrics(pg, d) ==
    LET before == DateLT(d, SEMESTER_START)
        after == DateLT(SEMESTER_END, d)
        days_elapsed == IF before THEN 0
                        ELSE IF after THEN TOTAL_SEMESTER_DAYS
                        ELSE DaysBetween(d, SEMESTER_START)
        days_left == IF before THEN TOTAL_SEMESTER_DAYS
                     ELSE IF after THEN 0
                     ELSE DaysBetween(SEMESTER_END, d)
        page_diff == TrueDiv(pg * TOTAL_SEMESTER_DAYS - days_elapsed * TOTAL_PAGES,
                           TOTAL_SEMESTER_DAYS)
    IN  [shown |-> TRUE,
         total_days |-> TOTAL_SEMESTER_DAYS,
         days_elapsed |-> days_elapsed,
         days_left |-> days_left,
         semester_progress |-> TrueDiv(days_elapsed * 100, TOTAL_SEMESTER_DAYS),
         textbook_progress |-> TrueDiv(pg * 100, TOTAL_PAGES),
         expected_page |-> TrueDiv(days_elapsed * TOTAL_PAGES,
                                 TOTAL_SEMESTER_DAYS),
         page_diff |-> page_diff,
         status |-> IF Abs(page_diff.num) < page_diff.den THEN "On track!"
                    ELSE IF page_diff.num < 0 THEN "behind schedule"
                    ELSE "ahead of schedule",
         pace_shown |-> days_left > 0,
         pace |-> IF days_left > 0
                  THEN TrueDiv(TOTAL_PAGES - pg, days_left) ELSE Zero]

\* update_widget with n calls still scheduled: [display, pending]; it ends
\* with root.after(60000, update_widget)
update_widget(pg, d, n) ==
    [display |-> qft_metrics(pg, d), pending |-> n + 1]

\* the problems among rows
RowProblems(rows) ==
    {SplitWords(rows[i].text)[1] : i \in {j \in 1..Len(rows) : rows[j].isProblem}}

\* the loop of mark_problem, building every completed entry anew
RECURSIVE MarkRows_FreshEntry(_, _, _)
MarkRows_FreshEntry(st, rows, mark_complete) ==
    IF rows = <<>> THEN st
    ELSE LET item == Head(rows)
             prob_text == SplitWords(item.text)[1]
             cp == st.completed
             entry == [complete |-> TRUE, document |-> NoDocument]
             next ==
                 IF ~item.isProblem THEN st
                 ELSE IF mark_complete
                 THEN [completed |-> DictSet(cp, prob_text, entry),
                       changes_made |-> TRUE]
                 ELSE IF prob_text \in DOMAIN cp
                 THEN [completed |-> DictDel(cp, prob_text),
                       changes_made |-> TRUE]
                 ELSE st
         IN  MarkRows_FreshEntry(next, Tail(rows), mark_complete)

\* the loop of mark_problem over the selected rows
RECURSIVE MarkRows(_, _, _)
MarkRows(st, rows, mark_complete) ==
    IF rows = <<>> THEN st
    ELSE LET item == Head(rows)
             prob_text == SplitWords(item.text)[1]
             cp == st.completed
             current_data == IF prob_text \in DOMAIN cp
                             THEN cp[prob_text] ELSE EmptyDict
             withComplete == DictSet(current_data, "complete", TRUE)
             entry == IF "document" \in DOMAIN withComplete
                      THEN withComplete
                      ELSE DictSet(withComplete, "document", NoDocument)
             next ==
                 IF ~item.isProblem THEN st
                 ELSE IF mark_complete
                 THEN [completed |-> DictSet(cp, prob_text, entry),
                       changes_made |-> TRUE]
                 ELSE IF prob_text \in DOMAIN cp
                 THEN [completed |-> DictDel(cp, prob_text),
                       changes_made |-> TRUE]
                 ELSE st
         IN  MarkRows(next, Tail(rows), mark_complete)

\* mark_problem of progress_tracker_QFT.py; rows: the rows tree.selection()
\* names, in tree order
qft_mark_problem(mark_complete, rows) ==
    LET res == MarkRows([completed |-> completed_problems,
                         changes_made |-> FALSE], rows, mark_complete)
    IN  /\ program = "qft"
        /\ IF rows = <<>>
           THEN /\ DoneMark("No Selection", {})
                /\ UNCHANGED qftVars
           ELSE /\ DoneMark(IF mark_complete THEN "complete" ELSE "incomplete",
                            RowProblems(rows))
                /\ completed_problems' = res.completed
                /\ completed_file' =
                       IF res.changes_made
                       THEN save_completed_problems(res.completed)
                       ELSE completed_file
                /\ UNCHANGED <<current_page, config_file, uploads, pending>>
        /\ UNCHANGED <<program, today, display, baseVars>>

QftMarkProblem ==
    \E mark_complete \in BOOLEAN,
       rows \in Selections(update_treeview(completed_problems)) :
        qft_mark_problem(mark_complete, rows)

\* os.path.splitext(path)[1]: from the last dot of the last path component,
\* unless only dots precede it there
SplitExt(path) ==
    LET slashes == {i \in 1..Len(path) : path[i] = "/"}
        base == IF slashes = {} THEN 1
                ELSE 1 + CHOOSE i \in slashes : \A j \in slashes : j <= i
        dots == {i \in base..Len(path) : path[i] = "."}
        last == CHOOSE i \in dots : \A j \in dots : j <= i
    IN  IF dots # {} /\ \E i \in base..(last - 1) : path[i] # "."
        THEN SubSeq(path, last, Len(path)) ELSE <<>>

\* what the file dialog may return: nothing (cancelled) or "a.pdf"
FilePaths == {<<>>, <<"a", ".", "p", "d", "f">>}

\* upload_document without the check that the problem is marked complete
upload_document_NoCompleteCheck(rows, file_path, copyOk) ==
    LET item == rows[1]
        prob == SplitWords(item.text)[1]
        destination == UPLOAD_DIR \o <<"/">> \o prob \o SplitExt(file_path)
        old == IF prob \in DOMAIN completed_problems
               THEN completed_problems[prob] ELSE EmptyDict
        cp == DictSet(completed_problems, prob,
                      DictSet(old, "document", destination))
    IN  /\ program = "qft"
        /\ IF rows = <<>>
           THEN /\ Done("upload_document", "No Selection")
                /\ UNCHANGED qftVars
           ELSE IF ~item.isProblem
           THEN /\ Done("upload_document", "Selection Error")
                /\ UNCHANGED qftVars
           ELSE IF file_path = <<>>
           THEN /\ Done("upload_document", "cancelled")
                /\ UNCHANGED qftVars
           ELSE IF ~copyOk
           THEN /\ Done("upload_document", "Upload Error")
                /\ UNCHANGED qftVars
           ELSE /\ Done("upload_document", "Upload Successful")
                /\ uploads' = uploads \cup {destination}
                /\ completed_problems' = cp
                /\ completed_file' = save_completed_problems(cp)
                /\ UNCHANGED <<current_page, config_file, pending>>
        /\ UNCHANGED <<program, today, display, baseVars>>

\* upload_document; rows: the rows tree.selection() names; copyOk: whether
\* shutil.copy succeeds
upload_document(rows, file_path, copyOk) ==
    LET item == rows[1]
        prob == SplitWords(item.text)[1]
        destination == UPLOAD_DIR \o <<"/">> \o prob \o SplitExt(file_path)
        cp == [completed_problems EXCEPT ![prob].document = destination]
    IN  /\ program = "qft"
        /\ IF rows = <<>>
           THEN /\ Done("upload_document", "No Selection")
                /\ UNCHANGED qftVars
           ELSE IF ~item.isProblem
           THEN /\ Done("upload_document", "Selection Error")
                /\ UNCHANGED qftVars
           ELSE IF prob \notin DOMAIN completed_problems
                   \/ EntryGet(completed_problems[prob], "complete") # TRUE
           THEN /\ Done("upload_document", "Not Complete")
                /\ UNCHANGED qftVars
           ELSE IF file_path = <<>>
           THEN /\ Done("upload_document", "cancelled")
                /\ UNCHANGED qftVars
           ELSE IF ~copyOk
           THEN /\ Done("upload_document", "Upload Error")
                /\ UNCHANGED qftVars
           ELSE /\ Done("upload_document", "Upload Successful")
                /\ uploads' = uploads \cup {destination}
                /\ completed_problems' = cp
                /\ completed_file' = save_completed_problems(cp)
                /\ UNCHANGED <<current_page, config_file, pending>>
        /\ UNCHANGED <<program, today, display, baseVars>>

UploadDocument ==
    \E rows \in Selections(update_treeview(completed_problems)),
       file_path \in FilePaths, copyOk \in BOOLEAN :
        upload_document(rows, file_path, copyOk)

\* update_page of progress_tracker_QFT.py without its range check
qft_update_page_NoRangeCheck(text) ==
    LET new_page == IntOf(text)
        loaded == load_config(config_file)
        config == [loaded.config EXCEPT !.current_page = new_page.val]
        shown == update_widget(new_page.val, today, pending)
    IN  /\ program = "qft"
        /\ IF ~new_page.ok
           THEN /\ Done("update_page", "Please enter a valid number")
                /\ UNCHANGED <<qftVars, display>>
           ELSE /\ pending < MaxPending
                /\ current_page' = new_page.val
                /\ config_file' = save_config(config)
                /\ display' = shown.display
                /\ pending' = shown.pending
                /\ Done("update_page", "set")
                /\ UNCHANGED <<completed_problems, completed_file, uploads>>
        /\ UNCHANGED <<program, today, baseVars>>

\* update_page of progress_tracker_QFT.py
qft_update_page(text) ==
    LET new_page == IntOf(text)
        loaded == load_config(config_file)
        config == [loaded.config EXCEPT !.current_page = new_page.val]
        shown == update_widget(new_page.val, today, pending)
    IN  /\ program = "qft"
        /\ IF ~new_page.ok
           THEN /\ Done("update_page", "Please enter a valid number")
                /\ UNCHANGED <<qftVars, display>>
           ELSE IF 0 <= new_page.val /\ new_page.val <= TOTAL_PAGES
           THEN /\ pending < MaxPending
                /\ current_page' = new_page.val
                /\ config_file' = save_config(config)
                /\ display' = shown.display
                /\ pending' = shown.pending
                /\ Done("update_page", "set")
                /\ UNCHANGED <<completed_problems, completed_file, uploads>>
           ELSE /\ Done("update_page", "Page number must be between")
                /\ UNCHANGED <<qftVars, display>>
        /\ UNCHANGED <<program, today, baseVars>>

QftPageEntryTexts == PageEntryTexts \cup {<<"2", "5", "8">>, <<"2", "5", "9">>}

QftUpdatePage == \E text \in QftPageEntryTexts : qft_update_page(text)

\* one scheduled call of update_widget comes due
TimerFires ==
    LET shown == update_widget(current_page, today, pending - 1)
    IN  /\ program = "qft"
        /\ Done("update_widget", "timer")
        /\ pending > 0
        /\ display' = shown.display
        /\ pending' = shown.pending
        /\ UNCHANGED <<program, today, baseVars, completed_problems,
                       current_page, completed_file, config_file, uploads>>

\* the state the __main__ block builds from the two files on day d
QftStartup(cfile, kfile, d) ==
    LET loaded == load_config(kfile)
        pg == IF "current_page" \in DOMAIN loaded.config
              THEN loaded.config.current_page ELSE INITIAL_PAGE
        shown == update_widget(pg, d, 0)
    IN  [completed_problems |-> load_completed_problems(cfile),
         current_page |-> pg,
         completed_file |-> cfile,
         config_file |-> loaded.file,
         display |-> shown.display,
         pending |-> shown.pending]

\* the program is closed and started again
RestartQft ==
    LET st == QftStartup(completed_file, config_file, today)
    IN  /\ program = "qft"
        /\ Done("startup", "loaded")
        /\ completed_problems' = st.completed_problems
        /\ current_page' = st.current_page
        /\ completed_file' = st.completed_file
        /\ config_file' = st.config_file
        /\ display' = st.display
        /\ pending' = st.pending
        /\ UNCHANGED <<program, today, baseVars, uploads>>

(***************************************************************************)
(* Specifications.                                                         *)
(***************************************************************************)
Day(y, m, d) == [year |-> y, month |-> m, day |-> d]

\* the day on which the handlers of Spec run
AppToday == Day(2025, 3, 1)

\* the program named by `prog` has just been started on day d with
\* textbooks.json = tfile, completed_problems.json = cfile and
\* tracker_config.json = kfile; the other program has no state of its own
Started(prog, d, tfile, cfile, kfile) ==
    LET b == BaseStartup(tfile, d)
        q == QftStartup(cfile, kfile, d)
    IN  /\ program = prog
        /\ today = d
        /\ heap = b.heap
        /\ textbooks = b.textbooks
        /\ current_textbook = b.current_textbook
        /\ curselection = b.curselection
        /\ tree = b.tree
        /\ textbooks_file = tfile
        /\ completed_problems = q.completed_problems
        /\ current_page = q.current_page
        /\ completed_file = q.completed_file
        /\ config_file = q.config_file
        /\ uploads = {}
        /\ pending = q.pending
        /\ display = IF prog = "base" THEN b.display ELSE q.display
        /\ lastOp = [op |-> "startup", result |-> "loaded", probs |-> {}]

\* a first start: none of the files exists yet
Init ==
    \E prog \in {"base", "qft"} :
        Started(prog, AppToday, AbsentFile, AbsentFile, AbsentFile)

NextBase ==
    \/ AddTextbook
    \/ \E i \in 1..MaxBooks : Select(i)
    \/ MarkProblem
    \/ UpdatePage
    \/ DeleteTextbook
    \/ RestartBase

NextQft ==
    \/ QftMarkProblem
    \/ UploadDocument
    \/ QftUpdatePage
    \/ TimerFires
    \/ RestartQft

Next == NextBase \/ NextQft

\* both programs
Spec == Init /\ [][Next]_vars

\* progress_tracker.py alone
InitBase == Started("base", AppToday, AbsentFile, AbsentFile, AbsentFile)
SpecBase == InitBase /\ [][NextBase]_vars

\* progress_tracker_QFT.py alone
InitQft == Started("qft", AppToday, AbsentFile, AbsentFile, AbsentFile)
SpecQft == InitQft /\ [][NextQft]_vars

(***************************************************************************)
(* The progress display over the days: the program is started on a file    *)
(* it wrote earlier, the days pass, and the display is refreshed (by a     *)
(* click on the textbook in progress_tracker.py, by the timer in           *)
(* progress_tracker_QFT.py).                                               *)
(***************************************************************************)
MetricDays == {Day(2025, 1, 1), Day(2025, 1, 13), Day(2025, 3, 1),
               Day(2025, 5, 9), Day(2025, 6, 1)}

\* <<total_pages, current_page>> of the stored textbook
MetricPages == {<<0, 0>>, <<1, 0>>, <<1, 1>>, <<258, 0>>, <<258, 80>>,
                <<258, 258>>}

\* <<start_date, end_date>> of the stored textbook
MetricDates == {<<Day(2025, 1, 13), Day(2025, 1, 13)>>,
                <<Day(2025, 1, 13), Day(2025, 5, 9)>>}

\* current_page in tracker_config.json
MetricQftPages == {0, 1, 80, 104, 105, 106, 257, 258}

MetricBook(pages, dates) ==
    [NewTextbook("A", "x", pages[1], parse_problems(<<>>), dates[1],
                 dates[2], pages[2]) EXCEPT !.current_page = pages[2]]

InitMetrics ==
    \E d \in MetricDays :
        \/ \E pages \in MetricPages, dates \in MetricDates :
              Started("base", d,
                      FileWith(<<to_dict(MetricBook(pages, dates))>>),
                      AbsentFile, AbsentFile)
        \/ \E pg \in MetricQftPages :
              Started("qft", d, AbsentFile, AbsentFile,
                      FileWith([current_page |-> pg]))

\* midnight passes
Tick ==
    /\ \E d \in MetricDays : DateLT(today, d) /\ today' = d
    /\ UNCHANGED <<program, display, baseVars, qftVars, lastOp>>

NextMetrics ==
    \/ Tick
    \/ Select(1)
    \/ TimerFires

SpecMetrics == InitMetrics /\ [][NextMetrics]_vars

(***************************************************************************)
(* Starting on files the program did not write.  Such a file holds a JSON  *)
(* document, or text that is not JSON.  A document is [t, v]: its JSON     *)
(* type and its value; the items of a list and the values of a dict are    *)
(* documents again where the code looks at their type.                     *)
(***************************************************************************)
JInvalid == [t |-> "invalid", v |-> <<>>]
JNull == [t |-> "null", v |-> <<>>]
JNum(n) == [t |-> "num", v |-> n]
JStr(s) == [t |-> "str", v |-> s]
JBool(b) == [t |-> "bool", v |-> b]
JList(items) == [t |-> "list", v |-> items]
JDict(d) == [t |-> "dict", v |-> d]

\* a file somebody else put in place
DocFile(doc) == [exists |-> TRUE, data |-> <<>>, raw |-> doc]

\* what a run of a Python block yields: the exception it raised ("" for
\* none) and its value
Returned(value) == [raised |-> "", value |-> value]
Raised(exception) == [raised |-> exception, value |-> <<>>]

\* the keys Textbook.from_dict subscripts, in the order it evaluates them
FromDictKeys ==
    <<"name", "author", "total_pages", "problems_dict", "start_date",
      "end_date", "current_page">>

\* Textbook.from_dict(td) for an item td of the loaded document
from_dict_json(td) ==
    LET missing == {i \in 1..Len(FromDictKeys) :
                        FromDictKeys[i] \notin DOMAIN td.v}
        first == CHOOSE i \in missing : \A j \in missing : i <= j
    IN  IF td.t # "dict" THEN Raised("TypeError")
        ELSE IF missing # {} /\ first <= 5 THEN Raised("KeyError")
        ELSE IF ~FromIsoFormat(td.v["start_date"]).ok THEN Raised("ValueError")
        ELSE IF missing # {} /\ first = 6 THEN Raised("KeyError")
        ELSE IF ~FromIsoFormat(td.v["end_date"]).ok THEN Raised("ValueError")
        ELSE IF missing # {} THEN Raised("KeyError")
        ELSE Returned(from_dict(td.v))

\* [Textbook.from_dict(td) for td in items]
RECURSIVE FromDictAll(_)
FromDictAll(items) ==
    IF items = <<>> THEN Returned(<<>>)
    ELSE LET head == from_dict_json(Head(items))
             rest == FromDictAll(Tail(items))
         IN  IF head.raised # "" THEN head
             ELSE IF rest.raised # "" THEN rest
             ELSE Returned(<<head.value>> \o rest.value)

\* load_textbooks on a file of any content: json.load, then the list
\* comprehension over what it returned (the characters of a string and the
\* keys of a dict are strings, which from_dict cannot subscript by name)
load_textbooks_json(file) ==
    LET doc == file.raw
    IN  IF ~file.exists THEN Returned(<<>>)
        ELSE IF "raw" \notin DOMAIN file THEN Returned(load_textbooks(file))
        ELSE IF doc.t = "invalid" THEN Raised("JSONDecodeError")
        ELSE IF doc.t \in {"null", "num", "bool"} THEN Raised("TypeError")
        ELSE IF doc.t = "str"
        THEN (IF doc.v = <<>> THEN Returned(<<>>) ELSE Raised("TypeError"))
        ELSE IF doc.t = "dict"
        THEN (IF DOMAIN doc.v = {} THEN Returned(<<>>)
              ELSE Raised("TypeError"))
        ELSE FromDictAll(doc.v)

\* the entry the legacy list format is converted to
LegacyEntry ==
    JDict([k \in {"complete", "document"} |->
             IF k = "complete" THEN TRUE ELSE NoDocument])

\* load_completed_problems on a file of any content: problem |-> document.
\* Every exception is caught and gives {}; a list item that is a list or a
\* dict cannot be a key (TypeError: unhashable).
load_completed_problems_json(file) ==
    LET doc == file.raw
        written == load_completed_problems(file)
    IN  IF ~file.exists THEN EmptyDict
        ELSE IF "raw" \notin DOMAIN file
        THEN [p \in DOMAIN written |-> JDict(written[p])]
        ELSE IF doc.t = "list"
        THEN (IF \E i \in 1..Len(doc.v) : doc.v[i].t \in {"list", "dict"}
              THEN EmptyDict
              ELSE [p \in {doc.v[i].v : i \in 1..Len(doc.v)} |-> LegacyEntry])
        ELSE IF doc.t = "dict" THEN doc.v
        ELSE EmptyDict

\* sub in s, for strings
RECURSIVE Contains(_, _)
Contains(s, sub) ==
    IF Len(s) < Len(sub) THEN FALSE
    ELSE StartsWith(s, sub) \/ Contains(Tail(s), sub)

CurrentPageKey ==
    <<"c", "u", "r", "r", "e", "n", "t", "_", "p", "a", "g", "e">>

\* load_config on a file of any content: the document it returns.  The loop
\* that fills in missing keys raises TypeError on a number (`in`), on a
\* string or list without "current_page" (item assignment); every exception
\* is caught and gives the defaults.  A string or a list that contains
\* "current_page" comes back as it is.
load_config_json(file) ==
    LET doc == file.raw
        defaults == JDict([k \in {"current_page"} |-> JNum(INITIAL_PAGE)])
        written == load_config(file).config
    IN  IF ~file.exists THEN defaults
        ELSE IF "raw" \notin DOMAIN file
        THEN JDict([k \in DOMAIN written |-> JNum(written[k])])
        ELSE IF doc.t = "dict"
        THEN (IF "current_page" \in DOMAIN doc.v THEN doc
              ELSE JDict([k \in DOMAIN doc.v \cup {"current_page"} |->
                            IF k = "current_page" THEN JNum(INITIAL_PAGE)
                            ELSE doc.v[k]]))
        ELSE IF doc.t = "str" /\ Contains(doc.v, CurrentPageKey) THEN doc
        ELSE IF doc.t = "list"
                /\ \E i \in 1..Len(doc.v) :
                      doc.v[i].t = "str" /\ doc.v[i].v = CurrentPageKey
        THEN doc
        ELSE defaults

\* the first exception the rest of __main__ raises on what was loaded ("" for
\* none): config.get needs a dict (line 370); update_widget divides
\* current_page (line 176); update_treeview calls .get on the entry of every
\* problem of all_problems_dict that has one (line 145)
QftStartupRaises(completed, config) ==
    IF config.t # "dict" THEN "AttributeError"
    ELSE IF config.v["current_page"].t \notin {"num", "bool"} THEN "TypeError"
    ELSE IF \E c \in DOMAIN all_problems_dict :
              \E i \in 1..Len(all_problems_dict[c]) :
                 /\ all_problems_dict[c][i] \in DOMAIN completed
                 /\ completed[all_problems_dict[c][i]].t # "dict"
    THEN "AttributeError"
    ELSE ""

\* the program is started on this textbooks.json; an exception that nothing
\* catches ends the process before the window is shown
StartBaseOn(file) ==
    LET loaded == load_textbooks_json(file)
        st == BaseStartupWith(loaded.value, today)
    IN  /\ program = "base"
        /\ Done("startup",
                IF loaded.raised = "" THEN "loaded" ELSE loaded.raised)
        /\ textbooks_file' = file
        /\ textbooks' = st.textbooks
        /\ heap' = st.heap
        /\ curselection' = st.curselection
        /\ current_textbook' = st.current_textbook
        /\ display' = st.display
        /\ tree' = st.tree
        /\ UNCHANGED <<program, today, qftVars>>

\* the program is started on these completed_problems.json and
\* tracker_config.json
StartQftOn(cfile, kfile) ==
    LET completed == load_completed_problems_json(cfile)
        config == load_config_json(kfile)
        raised == QftStartupRaises(completed, config)
        page == config.v["current_page"]
        pg == IF page.t = "bool" THEN (IF page.v THEN 1 ELSE 0) ELSE page.v
        shown == update_widget(pg, today, 0)
    IN  /\ program = "qft"
        /\ Done("startup", IF raised = "" THEN "loaded" ELSE raised)
        /\ completed_file' = cfile
        /\ config_file' = IF kfile.exists THEN kfile
                          ELSE load_config(kfile).file
        /\ uploads' = uploads
        /\ IF raised = ""
           THEN /\ completed_problems' =
                       [p \in DOMAIN completed |-> completed[p].v]
                /\ current_page' = pg
                /\ display' = shown.display
                /\ pending' = shown.pending
           ELSE /\ completed_problems' = EmptyDict
                /\ current_page' = INITIAL_PAGE
                /\ display' = BlankDisplay
                /\ pending' = 0
        /\ UNCHANGED <<program, today, baseVars>>

\* a valid stored textbook, and the same with a key missing and with a date
\* that does not exist
StoredBook ==
    to_dict(MetricBook(<<258, 80>>, <<Day(2025, 1, 13), Day(2025, 5, 9)>>))

StoredBookNoPage ==
    [k \in DOMAIN StoredBook \ {"current_page"} |-> StoredBook[k]]

StoredBookBadDate == [StoredBook EXCEPT !.start_date = DateBad]

\* contents of textbooks.json
TextbookDocs ==
    <<JInvalid, JNull, JNum(5), JStr(<<>>), JStr(<<"a">>), JDict(EmptyDict),
      JDict([k \in {"name"} |-> JStr(<<"A">>)]), JList(<<>>),
      JList(<<JNum(5)>>), JList(<<JDict(StoredBookNoPage)>>),
      JList(<<JDict(StoredBookBadDate)>>), JList(<<JDict(StoredBook)>>),
      JList(<<JDict(StoredBook), JStr(<<"a">>)>>)>>

\* contents of completed_problems.json
CompletedDocs ==
    <<JInvalid, JNum(5), JList(<<JStr(<<"2", ".", "3">>)>>),
      JList(<<JList(<<>>)>>),
      JDict([p \in {<<"2", ".", "3">>} |-> JBool(TRUE)]),
      JDict([p \in {<<"2", ".", "3">>} |-> JNull]),
      JDict([p \in {<<"2", ".", "3">>} |-> LegacyEntry])>>

\* contents of tracker_config.json
ConfigDocs ==
    <<JInvalid, JNum(5), JList(<<>>), JList(<<JStr(CurrentPageKey)>>),
      JStr(CurrentPageKey), JDict(EmptyDict),
      JDict([k \in {"current_page"} |-> JStr(<<"8", "0">>)]),
      JDict([k \in {"current_page"} |-> JNum(80)])>>

\* the files of a sequence of documents, and no file
FilesOf(docs) == [i \in 0..Len(docs) |->
                    IF i = 0 THEN AbsentFile ELSE DocFile(docs[i])]

\* the program is closed, textbooks.json is replaced and the program started
ReplaceAndStartBase ==
    \E i \in 0..Len(TextbookDocs) : StartBaseOn(FilesOf(TextbookDocs)[i])

ReplaceAndStartQft ==
    \E i \in 0..Len(CompletedDocs), j \in 0..Len(ConfigDocs) :
        StartQftOn(FilesOf(CompletedDocs)[i], FilesOf(ConfigDocs)[j])

NextLoad ==
    \/ Tick
    \/ ReplaceAndStartBase
    \/ ReplaceAndStartQft

SpecLoad == Init /\ [][NextLoad]_vars

(***************************************************************************)
(* The problems box of the Add dialog: every text of up to MaxLines lines  *)
(* taken from ProblemLines is typed in and added to an empty list.         *)
(***************************************************************************)
\* "Chapter 1", "chapter  2", "CHAPTER<tab>3", " 1.1, 1.2a ", "2.1", ""
ProblemLines ==
    {<<"C", "h", "a", "p", "t", "e", "r", " ", "1">>,
     <<"c", "h", "a", "p", "t", "e", "r", " ", " ", "2">>,
     <<"C", "H", "A", "P", "T", "E", "R", "\t", "3">>,
     <<" ", "1", ".", "1", ",", " ", "1", ".", "2", "a", " ">>,
     <<"2", ".", "1">>,
     <<>>}

LineSeqs == UNION {[1..n -> ProblemLines] : n \in 1..MaxLines}

\* "Chapter 1\n1.1, 1.2a\nChapter 2\n2.1"
ExampleLines ==
    <<<<"C", "h", "a", "p", "t", "e", "r", " ", "1">>, <<"1", ".", "1", ",", " ", "1", ".", "2", "a">>,
      <<"C", "h", "a", "p", "t", "e", "r", " ", "2">>, <<"2", ".", "1">>>>

\* the text of the box: the lines, each ended by a newline
RECURSIVE JoinLines(_)
JoinLines(ls) ==
    IF ls = <<>> THEN <<>> ELSE Head(ls) \o <<"\n">> \o JoinLines(Tail(ls))

AddLines(ls) ==
    /\ textbooks = <<>>
    /\ parse_and_add(<<"A">>, <<"x">>, <<"1">>, Date1, Date2, JoinLines(ls))

AddParsed == \E ls \in LineSeqs \cup {ExampleLines} : AddLines(ls)

NextParse ==
    \/ AddParsed
    \/ Select(1)
    \/ DeleteTextbook

SpecParse == InitBase /\ [][NextParse]_vars

(***************************************************************************)
(* Properties.                                                             *)
(***************************************************************************)
\* the records of the store, in list order
Records == [i \in 1..Len(textbooks) |-> heap[textbooks[i]]]

\* C1: saving the records with save_textbooks and loading them back with
\* load_textbooks yields records equal field for field to the saved ones,
\* completed_problems included.
C1_RoundTrip ==
    program = "base" =>
        load_textbooks(save_textbooks(textbooks, heap)) = Records

\* C2: in every reachable state every record of the store has
\* 0 <= current_page <= total_pages (and the single textbook of
\* progress_tracker_QFT.py has 0 <= current_page <= TOTAL_PAGES).
C2_PageInRange ==
    /\ \A i \in 1..Len(textbooks) :
          /\ 0 <= Records[i].current_page
          /\ Records[i].current_page <= Records[i].total_pages
    /\ program = "qft" => 0 <= current_page /\ current_page <= TOTAL_PAGES

\* an Add whose page count is an integer <= 0
AddNonPositivePages ==
    /\ lastOp'.op = "parse_and_add"
    /\ \E name \in Names, author \in Authors, pages \in PagesTexts,
          start \in StartTexts, end \in EndTexts, text \in ChapterTexts :
        /\ IntOf(pages).ok /\ IntOf(pages).val <= 0
        /\ parse_and_add(name, author, pages, start, end, text)

\* C3: adding a textbook with total pages <= 0 fails: no record is appended
\* and nothing is persisted.
C3_NonPositivePagesRejected ==
    [][AddNonPositivePages => UNCHANGED <<textbooks, heap, textbooks_file>>]_vars

\* an Add whose two dates parse and whose start date is after its end date
AddStartAfterEnd ==
    /\ lastOp'.op = "parse_and_add"
    /\ \E name \in Names, author \in Authors, pages \in PagesTexts,
          start \in StartTexts, end \in EndTexts, text \in ChapterTexts :
        /\ FromIsoFormat(start).ok /\ FromIsoFormat(end).ok
        /\ DateLT(FromIsoFormat(end).date, FromIsoFormat(start).date)
        /\ parse_and_add(name, author, pages, start, end, text)

\* C4: adding a textbook whose start date is after its end date fails and
\* leaves the record list, the persisted structure and the current selection
\* unchanged; every record the store ever holds has start_date <= end_date.
C4_StartAfterEndRejected ==
    /\ [][AddStartAfterEnd =>
            /\ lastOp'.result = ErrDates
            /\ UNCHANGED <<textbooks, heap, textbooks_file,
                           current_textbook, curselection>>]_vars
    /\ [](\A o \in DOMAIN heap : DateLE(heap[o].start_date, heap[o].end_date))

\* the dialog has just refused a start date after the end date, with a
\* textbook already in the store
C4_Witness ==
    /\ lastOp.op = "parse_and_add" /\ lastOp.result = ErrDates
    /\ textbooks # <<>>

\* the page of the record the page entry acts on, in memory and as a fresh
\* start of the program would read it back from the file
PageInMemory ==
    IF program = "base" THEN heap[current_textbook].current_page
    ELSE current_page

PagePersisted ==
    IF program = "base"
    THEN load_textbooks(textbooks_file)[
             CHOOSE i \in 1..Len(textbooks) :
                 textbooks[i] = current_textbook].current_page
    ELSE load_config(config_file).config.current_page

PageFile == IF program = "base" THEN textbooks_file ELSE config_file

PageLimit ==
    IF program = "base" THEN heap[current_textbook].total_pages
    ELSE TOTAL_PAGES

HasRecord == program = "base" => current_textbook # None

\* a page update whose entry is not an integer, or is one outside
\* [0, total_pages]
SetPageInvalid ==
    /\ lastOp'.op = "update_page"
    /\ HasRecord
    /\ \E text \in QftPageEntryTexts :
        /\ \/ ~IntOf(text).ok
           \/ IntOf(text).val < 0
           \/ IntOf(text).val > PageLimit
        /\ update_page(text) \/ qft_update_page(text)

\* the integers the page entries of the model denote
PageValues == {IntOf(text).val : text \in {t \in QftPageEntryTexts : IntOf(t).ok}}

\* a page update whose entry is the decimal numeral of v, 0 <= v <= total_pages
SetPageValid(v) ==
    /\ HasRecord
    /\ 0 <= v /\ v <= PageLimit
    /\ update_page(StrOf(v)) \/ qft_update_page(StrOf(v))

\* C5: a page update with a value that is not an integer in [0, total_pages]
\* leaves the current page unchanged in memory and in the file; with the
\* decimal numeral of an integer in [0, total_pages] it sets the current page
\* to exactly that integer and the file holds it.
C5_SetCurrentPage ==
    /\ [][SetPageInvalid =>
            /\ PageInMemory' = PageInMemory
            /\ PageFile' = PageFile]_vars
    /\ [][lastOp'.op = "update_page" =>
            \A v \in PageValues :
                SetPageValid(v) =>
                    /\ PageInMemory' = v
                    /\ PagePersisted' = v]_vars

\* the page was set to 2 and a later entry has just been refused as out of
\* range
C5_Witness ==
    /\ program = "qft"
    /\ lastOp.op = "update_page"
    /\ lastOp.result = "Page number must be between"
    /\ current_page = 2
    /\ load_config(config_file).config.current_page = 2

\* the completion map the mark buttons act on
CompletionMap ==
    IF program = "base" THEN heap[current_textbook].completed_problems
    ELSE completed_problems

\* what tree.selection() may name
SelectionsNow ==
    IF program = "base" THEN Selections(tree)
    ELSE Selections(update_treeview(completed_problems))

\* the problems among the selected rows
ProblemsOf(rows) ==
    IF program = "base"
    THEN {rows[i].prob : i \in {j \in 1..Len(rows) : rows[j].isProblem}}
    ELSE RowProblems(rows)

\* the step is mark_problem(complete) with these rows selected (the call
\* log is compared first: it names the problems of the rows)
Mark(complete, rows) ==
    /\ lastOp'.probs = ProblemsOf(rows)
    /\ mark_problem(complete, rows) \/ qft_mark_problem(complete, rows)

IsComplete(cp, p) == p \in DOMAIN cp /\ EntryGet(cp[p], "complete") = TRUE

MarkStep == lastOp'.op = "mark_problem" /\ HasRecord

\* C6: marking a problem incomplete removes its completion entry entirely,
\* attached document included; marking a problem that has no entry complete
\* yields an entry that is complete and whose document is null, whatever
\* document the problem had before.
C6_UnmarkDropsDocument ==
    /\ [][MarkStep =>
            \A rows \in SelectionsNow :
                Mark(FALSE, rows) =>
                    \A p \in ProblemsOf(rows) :
                        p \notin DOMAIN CompletionMap']_vars
    /\ [][MarkStep =>
            \A rows \in SelectionsNow :
                Mark(TRUE, rows) =>
                    \A p \in ProblemsOf(rows) \ DOMAIN CompletionMap :
                        /\ IsComplete(CompletionMap', p)
                        /\ EntryGet(CompletionMap'[p], "document")
                              = NoDocument]_vars

\* a problem whose uploaded file is still in the upload directory has just
\* been marked complete again and has no document
C6_Witness ==
    /\ program = "qft"
    /\ lastOp.op = "mark_problem" /\ lastOp.result = "complete"
    /\ \E p \in lastOp.probs :
        /\ \E f \in uploads : StartsWith(f, UPLOAD_DIR \o <<"/">> \o p)
        /\ completed_problems[p].document = NoDocument

\* C7: marking an already complete problem complete again leaves its entry
\* unchanged, an attached document included; marking problems incomplete
\* that have no entry leaves the completion map unchanged.
C7_ToggleIdempotent ==
    /\ [][MarkStep =>
            \A rows \in SelectionsNow :
                Mark(TRUE, rows) =>
                    \A p \in ProblemsOf(rows) :
                        IsComplete(CompletionMap, p) =>
                            CompletionMap'[p] = CompletionMap[p]]_vars
    /\ [][MarkStep =>
            \A rows \in SelectionsNow :
                (Mark(FALSE, rows)
                   /\ ProblemsOf(rows) \cap DOMAIN CompletionMap = {}) =>
                    CompletionMap' = CompletionMap]_vars

\* a problem with an attached document has just been marked complete again
\* and still has the document
C7_Witness ==
    /\ program = "qft"
    /\ lastOp.op = "mark_problem" /\ lastOp.result = "complete"
    /\ \E p \in lastOp.probs :
        completed_problems[p].document # NoDocument

\* Upload Document with a problem selected first that is not marked complete
UploadToIncomplete ==
    /\ lastOp'.op = "upload_document"
    /\ program = "qft"
    /\ \E rows \in Selections(update_treeview(completed_problems)),
          file_path \in FilePaths, copyOk \in BOOLEAN :
        /\ rows # <<>>
        /\ rows[1].isProblem
        /\ ~IsComplete(completed_problems, SplitWords(rows[1].text)[1])
        /\ upload_document(rows, file_path, copyOk)

\* C8: attaching a document to a problem that is not marked complete fails
\* and leaves the completion map, its file and the upload directory
\* unchanged; every completion entry of every reachable state has
\* complete = true.
C8_AttachNeedsComplete ==
    /\ [][UploadToIncomplete =>
            /\ lastOp'.result = "Not Complete"
            /\ UNCHANGED <<completed_problems, completed_file, uploads>>]_vars
    /\ [](\A p \in DOMAIN completed_problems :
            /\ IsComplete(completed_problems, p)
            /\ IsComplete(load_completed_problems(completed_file), p))

\* an upload has just been refused for a problem that is not complete, while
\* another problem has its document
C8_Witness ==
    /\ program = "qft"
    /\ lastOp.op = "upload_document" /\ lastOp.result = "Not Complete"
    /\ \E p \in DOMAIN completed_problems :
        completed_problems[p].document # NoDocument

\* the day values the program computes today: update_display for the current
\* textbook, update_widget for the semester
DayMetrics ==
    IF program = "base" THEN base_metrics(heap[current_textbook], today)
    ELSE qft_metrics(current_page, today)

RangeStart ==
    IF program = "base" THEN heap[current_textbook].start_date
    ELSE SEMESTER_START

RangeEnd ==
    IF program = "base" THEN heap[current_textbook].end_date
    ELSE SEMESTER_END

\* C9: for a date range with start_date <= end_date and any today,
\* 0 <= days_elapsed <= total_days and 0 <= days_left <= total_days, and
\* days_elapsed + days_left = total_days when start_date <= today <= end_date.
C9_DayBounds ==
    (HasRecord /\ DateLE(RangeStart, RangeEnd)) =>
        /\ 0 <= DayMetrics.days_elapsed
        /\ DayMetrics.days_elapsed <= DayMetrics.total_days
        /\ 0 <= DayMetrics.days_left
        /\ DayMetrics.days_left <= DayMetrics.total_days
        /\ (DateLE(RangeStart, today) /\ DateLE(today, RangeEnd)) =>
               DayMetrics.days_elapsed + DayMetrics.days_left
                 = DayMetrics.total_days

\* the handlers that mutate the store
Mutations == {"parse_and_add", "delete_textbook", "update_page",
              "mark_problem", "upload_document"}

\* the state a mutation changes: the records, or the completion map and the
\* current page
MemoryState ==
    IF program = "base" THEN <<Records>>
    ELSE <<completed_problems, current_page>>

\* the files hold the whole in-memory state: textbooks.json is what
\* save_textbooks writes for the records; completed_problems.json holds the
\* completion map (none when it was never written and the map is empty) and
\* tracker_config.json the current page
FilesCurrent ==
    IF program = "base"
    THEN textbooks_file = save_textbooks(textbooks, heap)
    ELSE /\ \/ completed_file = save_completed_problems(completed_problems)
            \/ ~completed_file.exists /\ completed_problems = EmptyDict
         /\ config_file.exists
         /\ config_file.data.current_page = current_page

\* C10: after every handler step that mutates the in-memory state (add,
\* delete, page update, mark, unmark, upload), the files equal the
\* serialization of the whole in-memory state.
C10_WrittenAfterMutation ==
    [][(lastOp'.op \in Mutations /\ MemoryState' # MemoryState) =>
          FilesCurrent']_vars

\* a textbook has just been deleted, another remains, and the file holds
\* exactly the remaining record
C10_Witness ==
    /\ program = "base"
    /\ lastOp.op = "delete_textbook" /\ lastOp.result = "deleted"
    /\ Len(textbooks) = 1
    /\ textbooks_file.exists
    /\ Len(textbooks_file.data) = 1
    /\ textbooks_file.data[1].name = heap[textbooks[1]].name

\* the file is there and is not JSON
Unreadable(file) ==
    file.exists /\ "raw" \in DOMAIN file /\ file.raw.t = "invalid"

\* C11: a start on malformed files never aborts: the program is running
\* afterwards, and a file that cannot be read leaves the record list empty,
\* respectively the completion map empty and the current page at its default.
C11_MalformedLoadContinues ==
    lastOp.op = "startup" =>
        /\ lastOp.result = "loaded"
        /\ program = "base" =>
              (Unreadable(textbooks_file) => textbooks = <<>>)
        /\ program = "qft" =>
              /\ Unreadable(completed_file) => completed_problems = EmptyDict
              /\ Unreadable(config_file) => current_page = INITIAL_PAGE

\* what update_widget computes today
WidgetMetrics == qft_metrics(current_page, today)

\* current_page - expected_page, times total_days
ScaledPageDiff ==
    current_page * WidgetMetrics.total_days
      - WidgetMetrics.days_elapsed * TOTAL_PAGES

\* C12: with expected_page = days_elapsed / total_days * TOTAL_PAGES and
\* page_diff = current_page - expected_page, the status is "On track!"
\* exactly when |page_diff| < 1, otherwise "behind schedule" when page_diff
\* is negative and "ahead of schedule" when it is positive; 258 pages,
\* 2025-01-13 to 2025-05-09, today 2025-03-01 and page 80 give total_days 116,
\* days_elapsed 47 and "behind schedule".  (The quotients are exact here; the
\* program's floats agree with them on the comparisons, as |page_diff| = 1
\* only for days_elapsed 0, 58 and 116, where the float quotient is exact.)
C12_ScheduleStatus ==
    program = "qft" =>
        /\ WidgetMetrics.expected_page
             = Ratio(WidgetMetrics.days_elapsed * TOTAL_PAGES,
                     WidgetMetrics.total_days)
        /\ WidgetMetrics.page_diff
             = Ratio(ScaledPageDiff, WidgetMetrics.total_days)
        /\ (WidgetMetrics.status = "On track!")
             <=> Abs(ScaledPageDiff) < WidgetMetrics.total_days
        /\ (WidgetMetrics.status = "behind schedule")
             <=> ScaledPageDiff <= 0 - WidgetMetrics.total_days
        /\ (WidgetMetrics.status = "ahead of schedule")
             <=> ScaledPageDiff >= WidgetMetrics.total_days
        /\ (today = Day(2025, 3, 1) /\ current_page = 80) =>
              /\ TOTAL_PAGES = 258
              /\ WidgetMetrics.total_days = 116
              /\ WidgetMetrics.days_elapsed = 47
              /\ WidgetMetrics.status = "behind schedule"

\* the timer has fired on 2025-03-01 and the widget shows page 80 as behind
\* schedule
C12_Witness ==
    /\ program = "qft"
    /\ today = Day(2025, 3, 1)
    /\ current_page = 80
    /\ lastOp.op = "update_widget"
    /\ display.shown
    /\ display.days_elapsed = 47
    /\ display.status = "behind schedule"

\* the quotients among the computed values
Quotients ==
    {DayMetrics.semester_progress, DayMetrics.textbook_progress,
     DayMetrics.pace}
      \cup (IF program = "qft"
            THEN {DayMetrics.expected_page, DayMetrics.page_diff} ELSE {})

PagesTotal ==
    IF program = "base" THEN heap[current_textbook].total_pages
    ELSE TOTAL_PAGES

\* C13: computing the metrics never divides by zero, whatever today is: with
\* total_days = 0 the semester percentage is 0 and with total_pages = 0 the
\* page percentage is 0.
C13_NoDivisionByZero ==
    HasRecord =>
        /\ ZeroDivisionError \notin Quotients
        /\ DayMetrics.total_days = 0 => DayMetrics.semester_progress = Zero
        /\ PagesTotal = 0 => DayMetrics.textbook_progress = Zero

\* a textbook of no pages that starts and ends on the same day has been
\* selected on a later day and both percentages shown are 0
C13_Witness ==
    /\ program = "base"
    /\ lastOp.op = "on_select"
    /\ current_textbook # None
    /\ heap[current_textbook].total_pages = 0
    /\ heap[current_textbook].start_date = heap[current_textbook].end_date
    /\ DateLT(heap[current_textbook].end_date, today)
    /\ display.shown
    /\ display.semester_progress = Zero
    /\ display.textbook_progress = Zero

\* the token of a chapter heading line: the word after a first word that is
\* "chapter" in any case; <<>> when the line is no heading
HeadingToken(line) ==
    LET words == SplitWords(line)
    IN  IF Len(words) >= 2
           /\ Lower(words[1]) = <<"c", "h", "a", "p", "t", "e", "r">>
        THEN words[2] ELSE <<>>

\* the mapping the lines stand for: chapters by heading token, each with the
\* trimmed comma-separated pieces of the non-empty lines below it, in order
RECURSIVE ChaptersOf(_, _, _)
ChaptersOf(lines, chapter, chapters) ==
    IF lines = <<>> THEN chapters
    ELSE LET line == Strip(Head(lines))
             pieces == SplitOn(line, ",")
             trimmed == [i \in 1..Len(pieces) |-> Strip(pieces[i])]
         IN  IF HeadingToken(line) # <<>>
             THEN ChaptersOf(Tail(lines), HeadingToken(line),
                             DictSet(chapters, HeadingToken(line), <<>>))
             ELSE IF chapter # <<>> /\ line # <<>>
             THEN ChaptersOf(Tail(lines), chapter,
                             [chapters EXCEPT ![chapter] = @ \o trimmed])
             ELSE ChaptersOf(Tail(lines), chapter, chapters)

\* C14: parse_problems returns, for any lines, the mapping in which each
\* heading line ("chapter", whitespace, token; any case) starts a chapter
\* keyed by the token, holding in order the trimmed comma-separated pieces of
\* the non-empty lines up to the next heading, lines before the first heading
\* being ignored; "Chapter 1 / 1.1, 1.2a / Chapter 2 / 2.1" gives
\* {"1": ["1.1", "1.2a"], "2": ["2.1"]}.
C14_ParseProblems ==
    [][(lastOp'.op = "parse_and_add" /\ lastOp'.result = "added") =>
          \A ls \in LineSeqs \cup {ExampleLines} :
              AddLines(ls) =>
                  heap'[textbooks'[1]].problems_dict
                    = ChaptersOf(ls, <<>>, EmptyDict)]_vars

\* record b is record a except perhaps in this field
SameBut(a, b, field) ==
    \A f \in DOMAIN a \ {field} : b[f] = a[f]

\* the list is the same and only this field of the current textbook may
\* have changed
OnlyCurrentChanged(field) ==
    /\ textbooks' = textbooks
    /\ DOMAIN heap' = DOMAIN heap
    /\ \A o \in DOMAIN heap :
          IF o = current_textbook THEN SameBut(heap[o], heap'[o], field)
          ELSE heap'[o] = heap[o]

\* C15: a page update changes only current_page, and a mark or unmark only
\* completed_problems, of the current textbook: its other fields and every
\* other textbook stay as they are; an Add leaves every textbook already in
\* the list as it is.
C15_Frame ==
    /\ [][(program = "base" /\ lastOp'.op = "update_page") =>
            OnlyCurrentChanged("current_page")]_vars
    /\ [][(program = "base" /\ lastOp'.op = "mark_problem") =>
            OnlyCurrentChanged("completed_problems")]_vars
    /\ [][(program = "base" /\ lastOp'.op = "parse_and_add") =>
            /\ Len(textbooks') >= Len(textbooks)
            /\ \A i \in 1..Len(textbooks) :
                  /\ textbooks'[i] = textbooks[i]
                  /\ heap'[textbooks[i]] = heap[textbooks[i]]]_vars

\* of two textbooks of one page each, the current one has just been set to
\* page 1 and the other is still at page 0
C15_Witness ==
    /\ program = "base"
    /\ lastOp.op = "update_page" /\ lastOp.result = "set"
    /\ Len(textbooks) = 2
    /\ current_textbook # None
    /\ heap[current_textbook].current_page = 1
    /\ \E i \in 1..2 :
          /\ textbooks[i] # current_textbook
          /\ heap[textbooks[i]].total_pages = 1
          /\ heap[textbooks[i]].current_page = 0

\* current_textbook is one of the objects of the list
CurrentInStore ==
    \E i \in 1..Len(textbooks) : textbooks[i] = current_textbook

C17_OnePendingRefresh == program = "qft" => pending <= 1

====
